---- MODULE Spec2Model ----
(***************************************************************************)
(* A model of src/lib/superValidate.ts of sveltekit-superforms:            *)
(* superValidate (the validation/merge pipeline), message and setError     *)
(* (the mutation API of a validated form).                                 *)
(*                                                                         *)
(* JavaScript values are modelled as follows.                              *)
(*   - An optional value is a set: {} is undefined, {v} is the value v,    *)
(*     so that `a ?? b` and `a?.b` can be written as the code writes them. *)
(*   - A string given to setError is a sequence of tokens: the path        *)
(*     'email._errors' is <<"email", ".", "_errors">> and the message      *)
(*     'first' is <<"first">>.  Path segments are property names; indexing *)
(*     into an array of messages by position is not modelled.              *)
(*   - A plain data record is a function from a set of keys to values;     *)
(*     the value "undefined" is a key that is present and holds undefined. *)
(*   - The error tree form.errors is a function from the paths below the   *)
(*     root to nodes: absent, an object, or an array of messages.  An      *)
(*     array is a JavaScript object and may carry named properties, which  *)
(*     are the nodes below it.                                             *)
(*   - Objects have identity.  An array the caller keeps and passes to     *)
(*     setError is stored by reference: a node holding it carries its      *)
(*     name in id, and its named properties live in held, once, for every  *)
(*     node that refers to it.  Every other object is referred to from     *)
(*     one place only and is stored where it hangs (id "own").            *)
(*   - superValidate is an async function: it runs up to an await, the     *)
(*     caller runs, and it resumes.  call holds the suspended call: its    *)
(*     locals and the objects it refers to, which the caller may write     *)
(*     in the meantime.                                                    *)
(***************************************************************************)
EXTENDS Integers, Sequences, FiniteSets, TLC

VARIABLES
    form,   \* the form object
    held,   \* the named properties of the arrays the caller keeps
    call,   \* the superValidate call in progress
    prev,   \* the form before the last call, its error tree read out
    form0,  \* the form as superValidate returned it
    calls,  \* the number of setError/message calls made on the form
    log,    \* the last call made: its arguments and what it computed
    ret     \* what the last call returned

vars == <<form, held, call, prev, form0, calls, log, ret>>

---------------------------------------------------------------------------
(* Bounds *)

\* Longest path, in segments, that a setError call addresses.
MaxDepth == 2
\* Number of setError/message calls made on one form.
MaxCalls == 3
\* Number of writes the caller makes to the options or the defaults object
\* while one superValidate call is suspended.
MaxWrites == 2

---------------------------------------------------------------------------
(* Optional values *)

Undefined == {}
Some(v) == {v}
Val(x) == CHOOSE v \in x : TRUE
\* x ?? d
Nullish(x, d) == IF x = Undefined THEN d ELSE Val(x)

---------------------------------------------------------------------------
(* Plain records *)

DataKeys == {"name", "email", "foo"}
IdKey == "__superform_id"
EmptyRec == [k \in {} |-> "undefined"]
Restrict(r, S) == [k \in (DOMAIN r) \cap S |-> r[k]]
\* { ...a, ...b }
Spread(a, b) == [k \in (DOMAIN a) \cup (DOMAIN b) |-> IF k \in DOMAIN b THEN b[k] ELSE a[k]]
\* r[k] !== undefined
Defined(r, k) == k \in DOMAIN r /\ r[k] # "undefined"

---------------------------------------------------------------------------
(* The error tree *)

ErrSegs == {"email", "_errors"}
Dot == "."
TreePaths == UNION {[1..n -> ErrSegs] : n \in 1..MaxDepth}
\* The array the caller keeps in a variable, const errs = ['first', 'second'],
\* and passes to setError.
HeldArrays == {"errs"}
HeldMsgs(c) == << <<"first">>, <<"second">> >>
Absent == [k |-> "absent", m |-> <<>>, id |-> "own"]
Obj == [k |-> "object", m |-> <<>>, id |-> "own"]
\* A new array holding the messages m.
Arr(m) == [k |-> "array", m |-> m, id |-> "own"]
\* The caller's array c itself.
HeldArr(c) == [k |-> "array", m |-> HeldMsgs(c), id |-> c]
EmptyTree == [p \in TreePaths |-> Absent]
NoHeld == [c \in HeldArrays |-> EmptyTree]
Prefix(p, n) == SubSeq(p, 1, n)
Below(q, p) == Len(q) > Len(p) /\ Prefix(q, Len(p)) = p

\* The objects reachable from form.errors: the tree hanging at the form and
\* the named properties of each array of the caller.
Owners == {"form"} \cup HeldArrays
Store(errors, h) == [o \in Owners |-> IF o = "form" THEN errors ELSE h[o]]
\* The object the first n segments of p lead to: o is the form or the
\* caller's array it hangs in, r the path to it from there.
RECURSIVE ObjectAt(_, _, _)
ObjectAt(S, p, n) ==
    IF n = 0 THEN [o |-> "form", r |-> <<>>]
    ELSE LET parent == ObjectAt(S, p, n - 1)
             slot == Append(parent.r, p[n])
             value == S[parent.o][slot]
         IN IF value.id # "own" THEN [o |-> value.id, r |-> <<>>]
            ELSE [o |-> parent.o, r |-> slot]
\* parent[key] for the last segment of p.
SlotAt(S, p) ==
    LET parent == ObjectAt(S, p, Len(p) - 1)
    IN [o |-> parent.o, r |-> Append(parent.r, p[Len(p)])]
ValueAt(S, p) == LET slot == SlotAt(S, p) IN S[slot.o][slot.r]
\* parent[key] = value: whatever hung below the old value is gone with it.
Assign(S, slot, value) ==
    [S EXCEPT ![slot.o] =
        [q \in TreePaths |->
            IF q = slot.r THEN value ELSE IF Below(q, slot.r) THEN Absent ELSE @[q]]]
\* form.errors read out path by path: what errors.a.b is, for every a.b.
Tree(errors, h) ==
    LET S == Store(errors, h)
    IN [p \in TreePaths |-> [ValueAt(S, p) EXCEPT !.id = "own"]]

---------------------------------------------------------------------------
(* superValidate: arguments *)

\* An argument of superValidate: an adapter, a data source, an options
\* object, or undefined/null.  A data source is a plain partial record
\* ("partial") or a submitted body ("posted": a Request, RequestEvent,
\* FormData, URL or URLSearchParams), whose fields are in rec.
ArgUndefined == [t |-> "undefined", rec |-> EmptyRec, ad |-> Undefined, opts |-> Undefined]
ArgNull == [t |-> "null", rec |-> EmptyRec, ad |-> Undefined, opts |-> Undefined]
ArgAdapter(a) == [t |-> "adapter", rec |-> EmptyRec, ad |-> Some(a), opts |-> Undefined]
ArgPartial(r) == [t |-> "partial", rec |-> r, ad |-> Undefined, opts |-> Undefined]
ArgPosted(r) == [t |-> "posted", rec |-> r, ad |-> Undefined, opts |-> Undefined]
ArgOptions(o) == [t |-> "options", rec |-> EmptyRec, ad |-> Undefined, opts |-> Some(o)]
\* !!x
JsTruthy(x) == x.t \notin {"undefined", "null"}
\* options?.f
OptField(options, f) == IF options.opts = Undefined THEN Undefined ELSE Val(options.opts)[f]

\* if (data && 'superFormValidationLibrary' in data) { options = adapter; adapter = data; data = undefined }
SuperValidateUnified(data, adapter, options) ==
    IF JsTruthy(data) /\ data.t = "adapter"
    THEN [data |-> ArgUndefined, adapter |-> data, options |-> adapter]
    ELSE [data |-> data, adapter |-> adapter, options |-> options]

\* mapAdapter(adapter): the adapter's defaults, jsonSchema and validator.
MapAdapter(adapter) == Val(adapter.ad)

\* parseRequest(data, jsonSchema, options): absent input gives no data and
\* posted = false; a plain record is taken as it is; a submitted body is
\* posted, and its reserved id field is extracted and stripped.
ParseRequest(data) ==
    CASE data.t = "partial" -> [data |-> Some(data.rec), id |-> Undefined, posted |-> FALSE]
      [] data.t = "posted" ->
            [data |-> Some(Restrict(data.rec, (DOMAIN data.rec) \ {IdKey})),
             id |-> IF IdKey \in DOMAIN data.rec THEN Some(data.rec[IdKey]) ELSE Undefined,
             posted |-> TRUE]
      [] OTHER -> [data |-> Undefined, id |-> Undefined, posted |-> FALSE]

---------------------------------------------------------------------------
(* superValidate: the pipeline *)

\* const defaults = options?.defaults ?? validation.defaults
Defaults(options, validation) == Nullish(OptField(options, "defaults"), validation.defaults)

\* const jsonSchema = options?.jsonSchema ?? validation.jsonSchema
JsonSchema(options, validation) == Nullish(OptField(options, "jsonSchema"), validation.jsonSchema)

\* AddErrors without the strict test: options?.errors ?? !!data
AddErrors_NoStrict(options, data) == Nullish(OptField(options, "errors"), JsTruthy(data))

\* const addErrors = options?.errors ?? (options?.strict ? true : !!data)
AddErrors(options, data) ==
    Nullish(OptField(options, "errors"),
            IF OptField(options, "strict") = Some(TRUE) THEN TRUE ELSE JsTruthy(data))

\* const hasData = !!parsed.data
HasData(parsed) == parsed.data # Undefined

\* parsed.data = { ...(options?.strict ? {} : defaults), ...(parsed.data ?? {}) }
MergedData(options, defaults, parsed) ==
    Spread(IF OptField(options, "strict") = Some(TRUE) THEN EmptyRec ELSE defaults,
           Nullish(parsed.data, EmptyRec))

\* The validation backend is an external collaborator: what it answers for a
\* record is the adapter's verdict.  "echo" accepts and returns the record
\* (the hyperjump adapter), "strip" accepts and returns the declared keys
\* only, the others reject with a list of issues.
IssuesOf(verdict) ==
    CASE verdict = "format" -> << [path |-> <<"email">>, message |-> <<"format">>] >>
      [] verdict = "many" -> << [path |-> <<>>, message |-> <<"required">>],
                                [path |-> <<"email">>, message |-> <<"format">>],
                                [path |-> <<"email">>, message |-> <<"type">>] >>
      [] OTHER -> <<>>

Validate(validation, record) ==
    CASE validation.verdict = "echo" -> [success |-> TRUE, data |-> record, issues |-> <<>>]
      [] validation.verdict = "strip" ->
            [success |-> TRUE,
             data |-> Restrict(record, Nullish(validation.jsonSchema.properties, {})),
             issues |-> <<>>]
      [] OTHER -> [success |-> FALSE, data |-> EmptyRec, issues |-> IssuesOf(validation.verdict)]

\* ShouldValidate without the short-circuit: the validator always runs.
ShouldValidate_Always(hasData, addErrors) == TRUE

\* hasData || addErrors
ShouldValidate(hasData, addErrors) == hasData \/ addErrors

\* Which validator superValidate called: the adapter's custom validator, the
\* generic validate, or none.
ValidatedBy(validation, hasData, addErrors) ==
    IF ShouldValidate(hasData, addErrors)
    THEN IF validation.custom THEN "customValidator" ELSE "validate"
    ELSE "none"

\* const status = hasData || addErrors ? <validator's result> : { success: false, issues: [] }
ValidationStatus(validation, hasData, addErrors, record) ==
    IF ShouldValidate(hasData, addErrors)
    THEN Validate(validation, record)
    ELSE [success |-> FALSE, data |-> EmptyRec, issues |-> <<>>]

\* mapErrors(issues, objects): each issue's message is appended, in the
\* order received, to the _errors list of the node its path addresses (the
\* root for an empty path); the nodes on the way are created as objects.
RECURSIVE MapErrors(_, _)
MapErrors(issues, t) ==
    IF issues = <<>> THEN t
    ELSE LET i == Head(issues)
             node == i.path \o <<"_errors">>
             t1 == [q \in TreePaths |->
                      IF Below(node, q) /\ t[q].k = "absent" THEN Obj ELSE t[q]]
             t2 == [q \in TreePaths |->
                      IF q = node THEN Arr(t1[q].m \o <<i.message>>) ELSE t1[q]]
         IN MapErrors(Tail(issues), t2)

\* const errors = valid || !addErrors ? {} : mapErrors(status.issues, validation.objects)
Errors(valid, addErrors, issues) ==
    IF valid \/ ~addErrors THEN EmptyTree ELSE MapErrors(issues, EmptyTree)

\* const finalData = valid ? status.data : parsed.data
FinalData(status, merged) == IF status.success THEN status.data ELSE merged

\* OutputData without the strip branch: additionalProperties is not read.
OutputData_NoStrip(jsonSchema, finalData, defaults) ==
    [key \in (DOMAIN finalData) \cup {k \in DOMAIN defaults : Defined(defaults, k)} |->
        IF key \in DOMAIN finalData THEN finalData[key] ELSE defaults[key]]

\* Strip keys not belonging to the schema, or keep all and back-fill defaults.
OutputData(jsonSchema, finalData, defaults) ==
    IF ~jsonSchema.additionalProperties
    THEN [key \in {k \in Nullish(jsonSchema.properties, {}) :
                      k \in DOMAIN finalData \/ Defined(defaults, k)} |->
             IF key \in DOMAIN finalData THEN finalData[key] ELSE defaults[key]]
    ELSE [key \in (DOMAIN finalData) \cup {k \in DOMAIN defaults : Defined(defaults, k)} |->
             IF key \in DOMAIN finalData THEN finalData[key] ELSE defaults[key]]

\* id: parsed.id ?? options?.id ?? (parsed.posted ? undefined : formId())
FormId(parsed, options, fresh) ==
    IF parsed.id # Undefined THEN parsed.id
    ELSE IF OptField(options, "id") # Undefined THEN OptField(options, "id")
    ELSE IF parsed.posted THEN Undefined ELSE Some(fresh)

\* No superValidate call is in progress.
NoStatus == [success |-> FALSE, data |-> EmptyRec, issues |-> <<>>]
NoCall ==
    [pc |-> "idle", adapterOnly |-> FALSE, data |-> ArgUndefined, options |-> ArgUndefined,
     validation |-> [defaults |-> EmptyRec,
                     jsonSchema |-> [properties |-> Undefined, additionalProperties |-> FALSE],
                     verdict |-> "echo", custom |-> FALSE],
     defaults |-> EmptyRec, defaultsOf |-> "adapter",
     jsonSchema |-> [properties |-> Undefined, additionalProperties |-> FALSE],
     jsonSchemaOf |-> "adapter", validatedBy |-> "none",
     errors |-> Undefined, strict |-> Undefined, addErrors |-> FALSE,
     parsed |-> [data |-> Undefined, id |-> Undefined, posted |-> FALSE],
     strictAtMerge |-> Undefined, hasData |-> FALSE, merged |-> EmptyRec,
     status |-> NoStatus, writes |-> 0]

\* superValidate(a1, a2, a3) up to `await parseRequest(...)` (lines 72-84):
\* the locals of the call.  validation, defaults and jsonSchema are
\* references: the call holds the objects, here with the contents they
\* have; defaultsOf and jsonSchemaOf say whose objects they are.
SuperValidateBegin(a1, a2, a3) ==
    LET u == SuperValidateUnified(a1, a2, a3)
        validation == MapAdapter(u.adapter)
    IN [NoCall EXCEPT
          !.pc = "parseRequest",
          !.adapterOnly = (a1.t = "adapter"),
          !.data = u.data,
          !.options = u.options,
          !.validation = validation,
          !.defaults = Defaults(u.options, validation),
          !.defaultsOf = IF OptField(u.options, "defaults") # Undefined
                         THEN "options" ELSE "adapter",
          !.jsonSchema = JsonSchema(u.options, validation),
          !.jsonSchemaOf = IF OptField(u.options, "jsonSchema") # Undefined
                           THEN "options" ELSE "adapter",
          !.errors = OptField(u.options, "errors"),
          !.strict = OptField(u.options, "strict"),
          !.addErrors = AddErrors(u.options, u.data),
          !.parsed = ParseRequest(u.data)]

\* From the answer of parseRequest up to the await of the validator, or,
\* when no validator is called, up to the assembly of the result
\* (lines 85-95).  options.strict, the defaults and the adapter's
\* customValidator are read as they are now.
SuperValidateParsed(c) ==
    LET hasData == HasData(c.parsed)
        merged == MergedData(c.options, c.defaults, c.parsed)
    IN [c EXCEPT
          !.pc = IF ShouldValidate(hasData, c.addErrors) THEN "validate" ELSE "assemble",
          !.strictAtMerge = OptField(c.options, "strict"),
          !.hasData = hasData,
          !.merged = merged,
          !.validatedBy = ValidatedBy(c.validation, hasData, c.addErrors),
          !.status = ValidationStatus(c.validation, hasData, c.addErrors, merged)]

\* From the validator's answer to the return (lines 97-128), where formId()
\* would answer fresh.  The defaults, the schema and options.id are read
\* as they are now.  The result holds the form returned and, in sv, the
\* values the call computed.
SuperValidateReturn(c, fresh) ==
    LET valid == c.status.success
        finalData == FinalData(c.status, c.merged)
    IN [form |-> [id |-> FormId(c.parsed, c.options, fresh),
                  valid |-> valid,
                  posted |-> c.parsed.posted,
                  errors |-> Errors(valid, c.addErrors, c.status.issues),
                  data |-> OutputData(c.jsonSchema, finalData, c.defaults),
                  message |-> Undefined],
        sv |-> [op |-> "superValidate",
                source |-> c.data.t,
                sourceKeys |-> DOMAIN c.data.rec,
                adapterOnly |-> c.adapterOnly,
                errors |-> c.errors,
                strict |-> c.strict,
                strictAtMerge |-> c.strictAtMerge,
                id |-> OptField(c.options, "id"),
                adapterDefaults |-> IF c.defaultsOf = "adapter"
                                    THEN c.defaults ELSE c.validation.defaults,
                defaults |-> c.defaults,
                jsonSchema |-> c.jsonSchema,
                addErrors |-> c.addErrors,
                parsed |-> c.parsed,
                validatedBy |-> c.validatedBy,
                status |-> c.status,
                merged |-> c.merged,
                writes |-> c.writes,
                fresh |-> fresh]]

\* superValidate(a1, a2, a3) when nothing else runs while it is suspended.
SuperValidate(a1, a2, a3, fresh) ==
    SuperValidateReturn(SuperValidateParsed(SuperValidateBegin(a1, a2, a3)), fresh)

\* What the caller does while the call is suspended: options.f = v,
\* defaults.k = v on the defaults object the call reads, jsonSchema.f = v
\* on the schema object the call reads (the adapter's own when the options
\* give none), or adapter.customValidator = <a validator that rejects>.
WriteOption(c, f, v) ==
    [c EXCEPT !.options = ArgOptions([Val(c.options.opts) EXCEPT ![f] = Some(v)]),
              !.writes = @ + 1]
WriteDefault(c, k, v) ==
    [c EXCEPT !.defaults = Spread(c.defaults, [x \in {k} |-> v]), !.writes = @ + 1]
WriteSchema(c, f, v) ==
    [c EXCEPT !.jsonSchema = [@ EXCEPT ![f] = v],
              !.validation = IF c.jsonSchemaOf = "adapter"
                             THEN [@ EXCEPT !.jsonSchema = [@ EXCEPT ![f] = v]] ELSE @,
              !.writes = @ + 1]
WriteCustomValidator(c, verdict) ==
    [c EXCEPT !.validation = [@ EXCEPT !.custom = TRUE, !.verdict = verdict],
              !.writes = @ + 1]

---------------------------------------------------------------------------
(* message and setError: arguments *)

\* A value passed to setError or message: undefined, a string, an array of
\* strings, or an options object { overwrite?, status? }.  An array is
\* either written in the call (JsArray, a new array) or one the caller
\* keeps (JsHeld, the same array every time).
JsUndefined ==
    [t |-> "undefined", s |-> <<>>, l |-> <<>>, id |-> "own", overwrite |-> Undefined, status |-> Undefined]
JsString(s) ==
    [t |-> "string", s |-> s, l |-> <<>>, id |-> "own", overwrite |-> Undefined, status |-> Undefined]
JsArray(l) ==
    [t |-> "array", s |-> <<>>, l |-> l, id |-> "own", overwrite |-> Undefined, status |-> Undefined]
JsHeld(c) ==
    [t |-> "array", s |-> <<>>, l |-> HeldMsgs(c), id |-> c, overwrite |-> Undefined, status |-> Undefined]
JsOptions(ow, st) ==
    [t |-> "object", s |-> <<>>, l |-> <<>>, id |-> "own", overwrite |-> ow, status |-> st]

\* fail(status, { form }) of the web framework, and the bare { form }.
Fail(op, status) == [op |-> op, kind |-> "failure", status |-> status]
Bare(op) == [op |-> op, kind |-> "bare", status |-> -1]
\* The call did not return: it threw.
Threw(op) == [op |-> op, kind |-> "threw", status |-> -1]

---------------------------------------------------------------------------
(* message *)

\* MessageValid with > for >=: a status of 400 does not invalidate.
MessageValid_Above400(valid, status) ==
    IF status # Undefined /\ Val(status) # 0 /\ Val(status) > 400 THEN FALSE ELSE valid

\* if (options?.status && options.status >= 400) form.valid = false
MessageValid(valid, status) ==
    IF status # Undefined /\ Val(status) # 0 /\ Val(status) >= 400 THEN FALSE ELSE valid

\* return !form.valid ? fail(options?.status ?? 400, { form }) : { form }
MessageReturn(valid, status) ==
    IF ~valid THEN Fail("message", Nullish(status, 400)) ELSE Bare("message")

\* message(form, payload, options)
Message(f, payload, options) ==
    LET status == IF options.t = "undefined" THEN Undefined ELSE options.status
        valid == MessageValid(f.valid, status)
    IN [form |-> [f EXCEPT !.valid = valid, !.message = Some(payload)],
        ret |-> MessageReturn(valid, status),
        call |-> [op |-> "message", payload |-> payload, status |-> status]]

---------------------------------------------------------------------------
(* setError *)

\* Unify signatures: setError(form, error, options?) is
\* setError(form, '', error, options?).
SetErrorUnified(path, error, options) ==
    IF error.t = "undefined" \/ (error.t # "string" /\ error.t # "array")
    THEN [path |-> JsString(<<>>), error |-> path, options |-> error]
    ELSE [path |-> path, error |-> error, options |-> options]

\* if (options === undefined) options = {}
SetErrorOptions(options) == IF options.t = "undefined" THEN JsOptions(Undefined, Undefined) ELSE options

\* const errArr = Array.isArray(error) ? error : [error]
\* The array given is used as it is; a string is put in a new array.
ErrArr(error) ==
    IF error.t = "array"
    THEN IF error.id = "own" THEN Arr(error.l) ELSE HeldArr(error.id)
    ELSE Arr(<<error.s>>)

\* splitPath(path): a path string is keys joined by dots; anything else
\* (a leading, trailing or doubled dot) is a MalformedPathError.
WellFormedPath(s) ==
    /\ Len(s) % 2 = 1
    /\ \A i \in 1..Len(s) : (i % 2 = 1) <=> (s[i] # Dot)
SplitPath(s) == [i \in 1..((Len(s) + 1) \div 2) |-> s[2 * i - 1]]

\* The modifier setError gives traversePath:
\* if (value === undefined) parent[key] = {}; return parent[key]
SetErrorModifier(S, slot) ==
    IF S[slot.o][slot.r].k = "absent" THEN Assign(S, slot, Obj) ELSE S

\* traversePath(form.errors, realPath, modifier): walks the segments before
\* the last, calling the modifier on each, and answers the leaf
\* { parent, key, value } of the last segment (nothing for an empty path).
RECURSIVE TraverseFrom(_, _, _)
TraverseFrom(S, realPath, n) ==
    IF n >= Len(realPath) THEN S
    ELSE TraverseFrom(SetErrorModifier(S, SlotAt(S, Prefix(realPath, n))), realPath, n + 1)
TraversePath(S, realPath) ==
    LET S1 == TraverseFrom(S, realPath, 1)
    IN IF realPath = <<>>
       THEN [found |-> FALSE, store |-> S, slot |-> [o |-> "form", r |-> <<>>], value |-> Absent]
       ELSE LET slot == SlotAt(S1, realPath)
            IN [found |-> TRUE, store |-> S1, slot |-> slot, value |-> S1[slot.o][slot.r]]

\* LeafErrors with the concat turned around: new messages come first.
LeafErrors_Prepend(value, errArr, overwrite) ==
    IF value.k = "array" /\ ~overwrite THEN Arr(errArr.m \o value.m) ELSE errArr

\* Array.isArray(leaf.value) && !options.overwrite ? leaf.value.concat(errArr) : errArr
\* concat answers a new array; otherwise errArr itself is stored.
LeafErrors(value, errArr, overwrite) ==
    IF value.k = "array" /\ ~overwrite THEN Arr(value.m \o errArr.m) ELSE errArr

\* The path === '' branch:
\* if (!form.errors._errors) form.errors._errors = [];
\* form.errors._errors = options.overwrite ? errArr : form.errors._errors.concat(errArr)
\* An object at _errors has no concat: the call throws a TypeError.
FormLevelErrors(S, errArr, overwrite) ==
    LET slot == [o |-> "form", r |-> <<"_errors">>]
        S0 == IF S[slot.o][slot.r].k = "absent" THEN Assign(S, slot, Arr(<<>>)) ELSE S
        value == S0[slot.o][slot.r]
    IN IF overwrite THEN [threw |-> FALSE, store |-> Assign(S0, slot, errArr)]
       ELSE IF value.k = "array"
            THEN [threw |-> FALSE, store |-> Assign(S0, slot, Arr(value.m \o errArr.m))]
            ELSE [threw |-> TRUE, store |-> S0]

\* The else branch: splitPath, traversePath, and the assignment to the leaf.
FieldErrors(S, path, errArr, overwrite) ==
    IF ~WellFormedPath(path) THEN [threw |-> TRUE, store |-> S]
    ELSE LET leaf == TraversePath(S, SplitPath(path))
         IN IF leaf.found
            THEN [threw |-> FALSE,
                  store |-> Assign(leaf.store, leaf.slot,
                                   LeafErrors(leaf.value, errArr, overwrite))]
            ELSE [threw |-> FALSE, store |-> leaf.store]

\* SetErrorValid without the assignment: form.valid is left as it was.
SetErrorValid_Kept(valid) == valid

\* form.valid = false
SetErrorValid(valid) == FALSE

\* return fail(options.status ?? 400, { form })
SetErrorReturn(status) == Fail("setError", Nullish(status, 400))

\* setError(form, a1, a2, a3), the caller's arrays having the named
\* properties h.
SetError(f, h, a1, a2, a3) ==
    LET u == SetErrorUnified(a1, a2, a3)
        options == SetErrorOptions(u.options)
        errArr == ErrArr(u.error)
        overwrite == (options.overwrite = Some(TRUE))
        formLevel == (u.path.s = <<>>)
        S == Store(f.errors, h)
        r == IF formLevel
             THEN FormLevelErrors(S, errArr, overwrite)
             ELSE FieldErrors(S, u.path.s, errArr, overwrite)
        entry == [op |-> "setError",
                 at |-> IF formLevel THEN <<"_errors">>
                        ELSE IF WellFormedPath(u.path.s) THEN SplitPath(u.path.s) ELSE <<>>,
                 formLevel |-> formLevel,
                 errArr |-> errArr.m,
                 overwrite |-> overwrite,
                 status |-> options.status]
        errors == r.store["form"]
        held1 == [c \in HeldArrays |-> r.store[c]]
    IN IF r.threw
       THEN [form |-> [f EXCEPT !.errors = errors], held |-> held1,
             ret |-> Threw("setError"), call |-> entry]
       ELSE [form |-> [f EXCEPT !.errors = errors, !.valid = SetErrorValid(f.valid)],
             held |-> held1,
             ret |-> SetErrorReturn(options.status),
             call |-> entry]

---------------------------------------------------------------------------
(* Inputs *)

\* The schema of routes/(v2)/v2/schemasafe-types/schema.ts and its defaults.
ExampleSchema == [properties |-> Some({"name", "email"}), additionalProperties |-> FALSE]
ExampleDefaults == [k \in {"name", "email"} |-> IF k = "name" THEN "Hello world!" ELSE ""]

Schemas ==
    {[properties |-> p, additionalProperties |-> a] :
        p \in {Undefined, Some({"name", "email"}), Some({"email"})}, a \in BOOLEAN}
\* Defaults with a value for every field, and defaults with a field left
\* undefined and a key the schema does not declare.
DefaultsSet ==
    {ExampleDefaults,
     Spread([ExampleDefaults EXCEPT !["email"] = "undefined"], [k \in {"foo"} |-> "baz"])}
Verdicts == {"echo", "strip", "many"}
Adapters ==
    {[defaults |-> d, jsonSchema |-> j, verdict |-> v, custom |-> c] :
        d \in DefaultsSet, j \in Schemas, v \in Verdicts, c \in {FALSE}}
    \cup {[defaults |-> d, jsonSchema |-> j, verdict |-> "echo", custom |-> TRUE] :
            d \in DefaultsSet, j \in Schemas}

OverrideDefaults == [k \in {"name", "email"} |-> IF k = "name" THEN "Override" ELSE "o@example.com"]
OverrideSchema == [properties |-> Some({"name"}), additionalProperties |-> TRUE]
SuperValidateOptions ==
    [errors : {Undefined, Some(TRUE), Some(FALSE)},
     strict : {Undefined, Some(TRUE)},
     id : {Undefined, Some("options-id")},
     defaults : {Undefined, Some(OverrideDefaults)},
     jsonSchema : {Undefined, Some(OverrideSchema)}]
OptionsArgs == {ArgUndefined} \cup {ArgOptions(o) : o \in SuperValidateOptions}
\* What the caller writes while a call is suspended.
LateOptions == {"id", "strict"}
LateOption(f) == IF f = "id" THEN "late-id" ELSE TRUE
LateDefaults == {"email"}
LateDefault(k) == "late@example.com"
LateSchemaProperties == Some({"name"})
LateVerdict == "format"

SubmittedFields ==
    [k \in DataKeys |-> CASE k = "name" -> "" [] k = "email" -> "not-an-email" [] OTHER -> "bar"]
SourceRecords ==
    {Restrict(SubmittedFields, S) : S \in {{}, {"email", "foo"}, {"name", "email", "foo"}}}
SourceArgs ==
    {ArgUndefined, ArgNull}
    \cup {ArgPartial(r) : r \in SourceRecords}
    \cup {ArgPosted(r) : r \in SourceRecords}
    \cup {ArgPosted(Spread(r, [k \in {IdKey} |-> "posted-id"])) : r \in SourceRecords}
FreshIds == {"fresh-id"}

Msgs == {<<"first">>, <<"second">>}
ErrorArgs ==
    {JsString(m) : m \in Msgs} \cup {JsArray(<<>>)} \cup {JsHeld(c) : c \in HeldArrays}
SetErrorOptionArgs ==
    {JsUndefined,
     JsOptions(Some(FALSE), Undefined),
     JsOptions(Some(TRUE), Undefined),
     JsOptions(Undefined, Some(399)),
     JsOptions(Some(TRUE), Some(500))}
\* Path strings: the paths of up to MaxDepth segments, the empty string,
\* and a string that ends in a dot.
PathStrings ==
    {s \in UNION {[1..n -> ErrSegs \cup {Dot}] : n \in 0..(2 * MaxDepth - 1)} :
        WellFormedPath(s) \/ s = <<>>}
    \cup {<<"email", Dot>>}
PathArgs == {JsString(s) : s \in PathStrings}
Payloads == {<<"ok">>, <<"bad">>}
MessageOptionArgs ==
    {JsUndefined}
    \cup {JsOptions(Undefined, Some(st)) : st \in {0, 399, 400, 422, 600}}

---------------------------------------------------------------------------
(* The mutation API on a validated form: Spec *)

NoForm ==
    [id |-> Undefined, valid |-> FALSE, posted |-> FALSE, errors |-> EmptyTree,
     data |-> EmptyRec, message |-> Undefined]
ExampleAdapter(verdict) ==
    ArgAdapter([defaults |-> ExampleDefaults, jsonSchema |-> ExampleSchema,
                verdict |-> verdict, custom |-> FALSE])
\* The forms the calls below start from: a fresh load and an accepted post
\* of the example schema.  Their error trees are empty: the trees the
\* calls work on are the ones setError itself builds.
InitForms ==
    {SuperValidate(ExampleAdapter("echo"), ArgUndefined, ArgUndefined, "fresh-id").form,
     SuperValidate(ArgPosted(Restrict(SubmittedFields, {"name", "email"})),
                   ExampleAdapter("echo"), ArgUndefined, "fresh-id").form}

Init ==
    /\ form \in InitForms
    /\ held = NoHeld
    /\ call = NoCall
    /\ prev = form
    /\ form0 = form
    /\ calls = 0
    /\ log = <<>>
    /\ ret = [op |-> "superValidate", kind |-> "form", status |-> -1]

\* One call on the form: r is what it did, h the caller's arrays after it.
Apply(r, h) ==
    /\ form' = r.form
    /\ held' = h
    /\ prev' = [form EXCEPT !.errors = Tree(form.errors, held)]
    /\ calls' = calls + 1
    /\ log' = <<r.call>>
    /\ ret' = r.ret
    /\ UNCHANGED <<form0, call>>

\* setError(form, error, options?)
SetErrorFormCall ==
    /\ calls < MaxCalls
    /\ \E error \in ErrorArgs, options \in SetErrorOptionArgs :
          LET r == SetError(form, held, error, options, JsUndefined) IN Apply(r, r.held)

\* setError(form, path, error, options?)
SetErrorPathCall ==
    /\ calls < MaxCalls
    /\ \E path \in PathArgs, error \in ErrorArgs, options \in SetErrorOptionArgs :
          LET r == SetError(form, held, path, error, options) IN Apply(r, r.held)

\* message(form, payload, options?)
MessageCall ==
    /\ calls < MaxCalls
    /\ \E payload \in Payloads, options \in MessageOptionArgs :
          Apply(Message(form, payload, options), held)

Next == SetErrorFormCall \/ SetErrorPathCall \/ MessageCall

Spec == Init /\ [][Next]_vars

---------------------------------------------------------------------------
(* The validation pipeline: SpecSV.  Each behaviour is one call of       *)
(* superValidate, on any of the inputs above, with the caller running    *)
(* while the call is suspended.                                          *)

InitSV ==
    /\ form = NoForm
    /\ held = NoHeld
    /\ call = NoCall
    /\ prev = NoForm
    /\ form0 = NoForm
    /\ calls = 0
    /\ log = <<>>
    /\ ret = [op |-> "none", kind |-> "none", status |-> -1]

\* The call runs up to its first await.
Suspend(c) ==
    /\ call' = c
    /\ UNCHANGED <<form, held, prev, form0, calls, log, ret>>

\* The promise resolves with the form.
Construct(r) ==
    /\ form' = r.form
    /\ call' = NoCall
    /\ prev' = NoForm
    /\ form0' = r.form
    /\ log' = <<r.sv>>
    /\ ret' = [op |-> "superValidate", kind |-> "form", status |-> -1]
    /\ UNCHANGED <<held, calls>>

\* superValidate(adapter, options?)
SuperValidateAdapterCall ==
    /\ ret.op = "none"
    /\ call.pc = "idle"
    /\ \E ad \in Adapters, options \in OptionsArgs :
          Suspend(SuperValidateBegin(ArgAdapter(ad), options, ArgUndefined))

\* superValidate(data, adapter, options?)
SuperValidateDataCall ==
    /\ ret.op = "none"
    /\ call.pc = "idle"
    /\ \E data \in SourceArgs, ad \in Adapters, options \in OptionsArgs :
          Suspend(SuperValidateBegin(data, ArgAdapter(ad), options))

\* parseRequest has answered and a validator is called: the call is
\* suspended again.
ParseRequestValidate ==
    /\ call.pc = "parseRequest"
    /\ SuperValidateParsed(call).pc = "validate"
    /\ Suspend(SuperValidateParsed(call))

\* parseRequest has answered and no validator is called: the call runs to
\* its return.
ParseRequestReturn ==
    /\ call.pc = "parseRequest"
    /\ SuperValidateParsed(call).pc = "assemble"
    /\ \E fresh \in FreshIds : Construct(SuperValidateReturn(SuperValidateParsed(call), fresh))

\* The validator has answered: the call runs to its return.
ValidateReturn ==
    /\ call.pc = "validate"
    /\ \E fresh \in FreshIds : Construct(SuperValidateReturn(call, fresh))

\* While the call is suspended the caller writes a field of the options
\* object it passed.
CallerWritesOptions ==
    /\ call.pc \in {"parseRequest", "validate"}
    /\ call.writes < MaxWrites
    /\ call.options.opts # Undefined
    /\ \E f \in LateOptions :
          /\ Val(call.options.opts)[f] # Some(LateOption(f))
          /\ Suspend(WriteOption(call, f, LateOption(f)))

\* While the call is suspended the caller writes a field of the defaults
\* object the call reads.
CallerWritesDefaults ==
    /\ call.pc \in {"parseRequest", "validate"}
    /\ call.writes < MaxWrites
    /\ \E k \in LateDefaults :
          /\ ~(k \in DOMAIN call.defaults /\ call.defaults[k] = LateDefault(k))
          /\ Suspend(WriteDefault(call, k, LateDefault(k)))

\* While the call is suspended the caller writes additionalProperties or
\* properties of the schema object the call reads.
CallerWritesSchema ==
    /\ call.pc \in {"parseRequest", "validate"}
    /\ call.writes < MaxWrites
    /\ \/ Suspend(WriteSchema(call, "additionalProperties", ~call.jsonSchema.additionalProperties))
       \/ /\ call.jsonSchema.properties # LateSchemaProperties
          /\ Suspend(WriteSchema(call, "properties", LateSchemaProperties))

\* While the call is suspended the caller gives the adapter a custom
\* validator.
CallerWritesAdapter ==
    /\ call.pc \in {"parseRequest", "validate"}
    /\ call.writes < MaxWrites
    /\ ~call.validation.custom
    /\ Suspend(WriteCustomValidator(call, LateVerdict))

NextSV ==
    \/ SuperValidateAdapterCall
    \/ SuperValidateDataCall
    \/ ParseRequestValidate
    \/ ParseRequestReturn
    \/ ValidateReturn
    \/ CallerWritesOptions
    \/ CallerWritesDefaults
    \/ CallerWritesSchema
    \/ CallerWritesAdapter

SpecSV == InitSV /\ [][NextSV]_vars

---------------------------------------------------------------------------
(* Properties of setError and message, checked under Spec *)

\* form.errors as it reads now.
Errs == Tree(form.errors, held)
\* The last call made on the form.
Last == log[Len(log)]
SetErrorReturned == ret.op = "setError" /\ ret.kind # "threw"
Range(q) == {q[i] : i \in 1..Len(q)}
OutOfRange(status) == status # Undefined /\ (Val(status) < 400 \/ Val(status) > 599)

\* C1: after any setError call that returns, form.valid is false, whatever
\* form.valid was before and whatever the path, the error and the options.
C1_SetErrorInvalidates == SetErrorReturned => form.valid = FALSE

\* C1 witness: a setError on a nested field path returned on a form that
\* was valid.
C1_Witness ==
    /\ SetErrorReturned
    /\ prev.valid
    /\ Last.at = <<"email", "_errors">>
    /\ ~form.valid

\* The two-call scenario of C2 at the node `at`, which held nothing when
\* the form was created: a first call has left one message there and
\* nothing else has been done; then a setError there with one message and
\* the given overwrite.
C2_Scenario(at, formLevel, overwrite) ==
    /\ calls = 2
    /\ form0.errors[at].k = "absent"
    /\ prev.errors[at].k = "array"
    /\ Len(prev.errors[at].m) = 1
    /\ SetErrorReturned
    /\ Last.at = at
    /\ Last.formLevel = formLevel
    /\ Len(Last.errArr) = 1
    /\ Last.overwrite = overwrite

\* C2 as stated: for the field path 'email' the two messages end up, in
\* call order, in errors.email._errors (only the second with overwrite).
C2_AsStated ==
    /\ C2_Scenario(<<"email">>, FALSE, FALSE)
          => Errs[<<"email", "_errors">>] = Arr(prev.errors[<<"email">>].m \o Last.errArr)
    /\ C2_Scenario(<<"email">>, FALSE, TRUE)
          => Errs[<<"email", "_errors">>] = Arr(Last.errArr)

\* C2 amended: the messages of the two calls end up at the addressed node
\* itself: errors.email is ['first','second'] without overwrite and
\* ['second'] with it, and nothing is stored in errors.email._errors; for
\* the omitted or empty path the same holds of errors._errors.
C2_OverwriteSemantics ==
    /\ \A at \in {<<"email">>, <<"email", "_errors">>} :
          /\ C2_Scenario(at, FALSE, FALSE) => Errs[at] = Arr(prev.errors[at].m \o Last.errArr)
          /\ C2_Scenario(at, FALSE, TRUE) => Errs[at] = Arr(Last.errArr)
    /\ \A ow \in BOOLEAN :
          C2_Scenario(<<"email">>, FALSE, ow) => Errs[<<"email", "_errors">>] = Absent
    /\ C2_Scenario(<<"_errors">>, TRUE, FALSE)
          => Errs[<<"_errors">>] = Arr(prev.errors[<<"_errors">>].m \o Last.errArr)
    /\ C2_Scenario(<<"_errors">>, TRUE, TRUE) => Errs[<<"_errors">>] = Arr(Last.errArr)

\* C2 witness: setError(form, 'email', 'first') then
\* setError(form, 'email', 'second', {overwrite: false}).
C2_Witness ==
    /\ C2_Scenario(<<"email">>, FALSE, FALSE)
    /\ prev.errors[<<"email">>] = Arr(<< <<"first">> >>)
    /\ Last.errArr = << <<"second">> >>
    /\ Errs[<<"email">>] = Arr(<< <<"first">>, <<"second">> >>)

\* C3: message stores the payload; a status >= 400 makes the form invalid
\* and is the status of the failure returned; without a status validity is
\* unchanged and a failure carries 400; the call returns a failure exactly
\* when the form is invalid afterwards and the bare form otherwise; an
\* invalid form never becomes valid.
C3_Message ==
    ret.op = "message" =>
        /\ form.message = Some(Last.payload)
        /\ (Last.status # Undefined /\ Val(Last.status) >= 400)
              => (~form.valid /\ ret = Fail("message", Val(Last.status)))
        /\ Last.status = Undefined
              => (form.valid = prev.valid /\ (ret.kind = "failure" => ret.status = 400))
        /\ (ret.kind = "failure") <=> ~form.valid
        /\ ret.kind \in {"failure", "bare"}
        /\ ~prev.valid => ~form.valid

\* C3 witness: message(form, 'bad', {status: 422}) on a valid form.
C3_Witness ==
    /\ ret = Fail("message", 422)
    /\ Last.payload = <<"bad">>
    /\ prev.valid
    /\ ~form.valid

\* C4: a setError or message call whose status is outside 400-599 is
\* rejected: it does not return a response.
C4_StatusRejected ==
    (ret.op \in {"setError", "message"} /\ OutOfRange(Last.status)) => ret.kind = "threw"

\* C9: no node of form.errors holds an empty list, unless the last call
\* was a setError on that node with overwrite and an empty list.
C9_SparseTree ==
    \A p \in TreePaths :
        Errs[p] = Arr(<<>>)
            => (SetErrorReturned /\ Last.at = p /\ Last.overwrite /\ Last.errArr = <<>>)

\* C10: a setError with a non-empty path and without overwrite removes no
\* message: every list of form.errors is still a list afterwards, and still
\* holds each of its messages.
C10_NoMessageRemoved ==
    (SetErrorReturned /\ ~Last.formLevel /\ ~Last.overwrite) =>
        \A p \in TreePaths :
            prev.errors[p].k = "array" =>
                /\ Errs[p].k = "array"
                /\ Range(prev.errors[p].m) \subseteq Range(Errs[p].m)

---------------------------------------------------------------------------
(* Properties of superValidate, checked under SpecSV *)

Constructed == ret.op = "superValidate" /\ Len(log) = 1
SourceAbsent(sv) == sv.source \in {"undefined", "null"}
\* The source is absent or a record without a key.
SourceEmpty(sv) == SourceAbsent(sv) \/ sv.sourceKeys = {}
Declared(sv) == Nullish(sv.jsonSchema.properties, {})
\* The validated-or-merged data.
Validated(sv) == IF form.valid THEN sv.status.data ELSE sv.merged

\* C5: the id is options.id if given, else the id parsed from the input,
\* else a fresh id when the input was not posted, else undefined.
C5_IdPriority ==
    Constructed =>
        LET sv == log[1]
        IN form.id = IF sv.id # Undefined THEN sv.id
                     ELSE IF sv.parsed.id # Undefined THEN sv.parsed.id
                     ELSE IF ~sv.parsed.posted THEN Some(sv.fresh) ELSE Undefined

\* C6: with additionalProperties false the data holds declared keys only,
\* each from the validated-or-merged data if present there, else from a
\* defined default, else omitted; with additionalProperties true every key
\* of the validated-or-merged data is kept with its value and defaults are
\* back-filled for the keys absent from it only.
C6_KeySet ==
    Constructed =>
        LET sv == log[1]
            fd == Validated(sv)
            d == sv.defaults
            keys == IF sv.jsonSchema.additionalProperties
                    THEN DataKeys ELSE Declared(sv)
        IN /\ DOMAIN form.data \subseteq keys
           /\ \A k \in keys :
                 IF k \in DOMAIN fd
                 THEN k \in DOMAIN form.data /\ form.data[k] = fd[k]
                 ELSE IF Defined(d, k)
                      THEN k \in DOMAIN form.data /\ form.data[k] = d[k]
                      ELSE k \notin DOMAIN form.data

\* C6 witness: additionalProperties is false, the input's extra key foo is
\* dropped, one declared key is taken from the data and one from defaults.
C6_Witness ==
    /\ Constructed
    /\ ~log[1].jsonSchema.additionalProperties
    /\ "foo" \in DOMAIN Validated(log[1])
    /\ "foo" \notin DOMAIN form.data
    /\ \E k \in DOMAIN form.data : k \in DOMAIN Validated(log[1])
    /\ \E k \in DOMAIN form.data : k \notin DOMAIN Validated(log[1])

\* The errors part of C7: {} when valid or addErrors is false, otherwise
\* the tree built from the validator's issues.
C7_ErrorsTree(sv) ==
    form.errors = IF form.valid \/ ~sv.addErrors THEN EmptyTree
                  ELSE MapErrors(sv.status.issues, EmptyTree)

C8_FreshLoad(sv) ==
    /\ SourceAbsent(sv)
    /\ sv.errors # Some(TRUE)
    /\ sv.strict # Some(TRUE)
    /\ sv.strictAtMerge # Some(TRUE)

\* What C8 says of a fresh-form load whose defaults are d.
C8_Result(sv, d) ==
    /\ sv.validatedBy = "none"
    /\ ~form.valid
    /\ ~form.posted
    /\ form.errors = EmptyTree
    /\ form.data = IF sv.jsonSchema.additionalProperties THEN d ELSE Restrict(d, Declared(sv))

\* C8 as stated: the data is the adapter's defaults.
C8_AsStated == Constructed /\ C8_FreshLoad(log[1]) => C8_Result(log[1], log[1].adapterDefaults)

\* C8 amended: the data is the defaults in effect: options.defaults when
\* the caller gives them, the adapter's defaults otherwise.
C8_FreshFormLoad == Constructed /\ C8_FreshLoad(log[1]) => C8_Result(log[1], log[1].defaults)

\* C8 witness: superValidate(adapter) on the example schema.
C8_Witness ==
    /\ Constructed
    /\ log[1].adapterOnly
    /\ log[1].errors = Undefined
    /\ log[1].jsonSchema = ExampleSchema
    /\ log[1].validatedBy = "none"
    /\ form.data = ExampleDefaults
    /\ form.errors = EmptyTree

====
